---- MODULE Spec2Model ----
(***************************************************************************)
(* Model of the AVR32 UC3 clock management driver                          *)
(* (LUFA/Platform/UC3/ClockManagement.h).                                  *)
(*                                                                         *)
(* The driver is a set of inline functions over the memory mapped          *)
(* registers of the power manager (AVR32_PM) and of the flash controller   *)
(* (AVR32_FLASHC).  Every access to such a register is a step of the       *)
(* model, so that the order of the writes and the busy-wait loops on the   *)
(* status register are visible.  The hardware is the environment: it       *)
(* raises and drops the bits of the status register poscsr.                *)
(*                                                                         *)
(* All register fields are integers (C true is 1, false is 0).  A field    *)
(* holds the value the driver assigns to it; the widths of the bit fields  *)
(* are set by the toolchain header <avr32/io.h>, which is not part of the  *)
(* driver.                                                                 *)
(***************************************************************************)
EXTENDS Integers, Sequences, FiniteSets, TLC

(***************************************************************************)
(* Bounds of the model.                                                    *)
(***************************************************************************)
\* number of driver calls made in one run of Spec
MaxCalls == 2
\* number of generic clock channels of the device that are modelled
NumGClk == 2

(***************************************************************************)
(* enum Extern_OSC_ClockTypes_t, Extern_OSC_ClockStartup_t,                *)
(* System_ClockSource_t                                                    *)
(***************************************************************************)
EXOSC_MODE_CLOCK == 0
EXOSC_MODE_8MHZ_OR_MORE == 4
EXOSC_START_0CLK == 0
EXOSC_START_16384CLK == 6
CLOCK_SRC_SLOW_CLK == 0
CLOCK_SRC_OSC0 == 1
CLOCK_SRC_OSC1 == 2
CLOCK_SRC_PLL0 == 3
CLOCK_SRC_PLL1 == 4

(***************************************************************************)
(* Bit offsets of <avr32/io.h> the driver uses: oscillator enable bits and *)
(* main clock select field of mcctrl, lock and ready bits of poscsr.       *)
(***************************************************************************)
AVR32_PM_MCCTRL_OSC0EN_OFFSET == 2
AVR32_PM_POSCSR_LOCK0_OFFSET == 0
AVR32_PM_POSCSR_OSC0RDY_OFFSET == 7
\* the bits of mcctrl the bit field MCCTRL.mcsel occupies
McselBits == {0, 1}

\* the flash wait state threshold of AVR32CLK_SetCPUClockSource
FWS_THRESHOLD == 30000000
\* (0 - 1) / 2 in uint32_t arithmetic, i.e. 0xFFFFFFFF / 2
UINT32_MAX_HALF == 2147483647

(***************************************************************************)
(* Arguments the calls are made with.                                      *)
(***************************************************************************)
OscChannels == {0, 1}
PllChannels == {0, 1}
GClkChannels == 0 .. (NumGClk - 1)
\* uint8_t Channel values tried: the valid ones and one past them
ChannelArgs == {0, 1, 2}
PllChannelArgs == PllChannels \cup {2}
GClkChannelArgs == GClkChannels \cup {NumGClk}
\* for AVR32CLK_StopExternalOscillator also one that shifts 1 out of the word
StopChannelArgs == ChannelArgs \cup {30}
TypeArgs == {EXOSC_MODE_CLOCK, EXOSC_MODE_8MHZ_OR_MORE}
StartupArgs == {EXOSC_START_0CLK, EXOSC_START_16384CLK}
\* uint8_t Source values tried: the enum and one value outside it
SourceArgs == {CLOCK_SRC_SLOW_CLK, CLOCK_SRC_OSC0, CLOCK_SRC_OSC1,
               CLOCK_SRC_PLL0, CLOCK_SRC_PLL1, 5}
\* <<SourceFreq, Frequency>> pairs: a quotient of 0, of 1 and of 4, and a
\* source frequency of 0
PllFreqArgs == {<<24000000, 12000000>>, <<12000000, 12000000>>,
                <<12000000, 48000000>>, <<0, 48000000>>}
\* <<SourceFreq, Frequency>> pairs: a target above the source, below it and
\* equal to it, and a target of 0
GClkFreqArgs == {<<12000000, 48000000>>, <<48000000, 12000000>>,
                 <<48000000, 48000000>>, <<12000000, 0>>}
\* a Channel outside the array is tried with a source the function accepts
\* and one it rejects, and one pair of frequencies that make the function
\* store to every field
PllSourceArgs(Channel) ==
  IF Channel \in PllChannels THEN SourceArgs ELSE {CLOCK_SRC_OSC1, 5}
PllFreqArgsOf(Channel) ==
  IF Channel \in PllChannels THEN PllFreqArgs ELSE {<<12000000, 48000000>>}
GClkSourceArgs(Channel) ==
  IF Channel \in GClkChannels THEN SourceArgs ELSE {CLOCK_SRC_OSC1, 5}
GClkFreqArgsOf(Channel) ==
  IF Channel \in GClkChannels THEN GClkFreqArgs ELSE {<<48000000, 12000000>>}
CpuFreqArgs == {30000000, 30000001, 48000000}
\* F_CPU values the usage example is built with
F_CPU_Args == {12000000, 24000000, 30000000, 30000001, 48000000, 66000000}
\* quotients a division by zero may leave in the result register
UndefinedQuotients == {0, 4}

VARIABLES
  OSCCTRL,   \* AVR32_PM.OSCCTRL0/1: [startup, mode] per oscillator channel
  mcctrl,    \* AVR32_PM.mcctrl, the set of the bits of the word that are 1
  PLL,       \* AVR32_PM.PLL[]: [pllosc, pllmul, plldiv, pllen]
  GCCTRL,    \* AVR32_PM.GCCTRL[]: [pllsel, oscsel, diven, div, cen]
  fws,       \* AVR32_FLASHC.FCR.fws
  poscsr,    \* AVR32_PM.poscsr, the set of the status bits that are 1
  pc,        \* statement the caller is at
  op,        \* driver function being executed
  args,      \* its arguments
  ret,       \* what the caller receives when the function has returned
  pre,       \* the registers when the function was called
  trace,     \* register writes, observed status bits and return statement
  calls,     \* number of calls made
  prog       \* calls the usage example has still to make

vars == <<OSCCTRL, mcctrl, PLL, GCCTRL, fws, poscsr, pc, op, args, ret, pre,
          trace, calls, prog>>
regvars == <<OSCCTRL, mcctrl, PLL, GCCTRL, fws>>

(***************************************************************************)
(* Registers and their fields.                                             *)
(***************************************************************************)
Regs == [OSCCTRL |-> OSCCTRL, mcctrl |-> mcctrl, PLL |-> PLL,
         GCCTRL |-> GCCTRL, fws |-> fws]

ResetRegs == [OSCCTRL |-> [c \in OscChannels |-> [startup |-> 0, mode |-> 0]],
              mcctrl |-> {},
              PLL |-> [c \in PllChannels |->
                         [pllosc |-> 0, pllmul |-> 0, plldiv |-> 0, pllen |-> 0]],
              GCCTRL |-> [c \in GClkChannels |->
                         [pllsel |-> 0, oscsel |-> 0, diven |-> 0, div |-> 0,
                          cen |-> 0]],
              fws |-> 0]

\* value of the bit field MCCTRL.mcsel of the word w
McselOf(w) == (IF 0 \in w THEN 1 ELSE 0) + (IF 1 \in w THEN 2 ELSE 0)
\* the word w with MCCTRL.mcsel replaced by v
WithMcsel(w, v) == (w \ McselBits) \cup {b \in McselBits : (v \div (2^b)) % 2 = 1}
mcsel == McselOf(mcctrl)
OscEnabled(c) == (AVR32_PM_MCCTRL_OSC0EN_OFFSET + c) \in mcctrl

NoArgs == [Channel |-> 0, Type |-> 0, Startup |-> 0, Source |-> 0,
           SourceFreq |-> 0, Frequency |-> 0, Alias |-> -1]

\* events of the trace: k is "w" (a field written), "poll" (a status bit
\* read as 1), "div0" (a division by zero evaluated) or "ret" (return
\* statement, f its source line); c is the channel, v the value
Ev(k, f, c, v) == [k |-> k, f |-> f, c |-> c, v |-> v]
Log(e) == trace' = Append(trace, e)
Bool(b) == IF b THEN 1 ELSE 0

Init ==
  /\ OSCCTRL = ResetRegs.OSCCTRL
  /\ mcctrl = ResetRegs.mcctrl
  /\ PLL = ResetRegs.PLL
  /\ GCCTRL = ResetRegs.GCCTRL
  /\ fws = ResetRegs.fws
  /\ poscsr = {}
  /\ pc = "idle"
  /\ op = "none"
  /\ args = NoArgs
  /\ ret = "none"
  /\ pre = ResetRegs
  /\ trace = << >>
  /\ calls = 0
  /\ prog = << >>

(***************************************************************************)
(* Calling a function and returning from it.                               *)
(***************************************************************************)
\* first statement of each function
Entry(f) ==
  CASE f = "StartExternalOscillator" -> "SO_startup"
    [] f = "StopExternalOscillator" -> "XO_disable"
    [] f = "StartPLL" -> "SP_pllosc"
    [] f = "StopPLL" -> "XP_pllen"
    [] f = "StartGenericClock" -> "SG_pllsel"
    [] f = "StopGenericClock" -> "XG_cen"
    [] f = "SetCPUClockSource" -> "CC_fws"

\* the functions declared void deliver no value to their caller
ReturnsVoid(f) == f \in {"StartExternalOscillator", "StopExternalOscillator",
                         "StopPLL", "StopGenericClock"}

Call(f, a) ==
  /\ pc = "idle"
  /\ calls < MaxCalls
  /\ calls' = calls + 1
  /\ op' = f
  /\ args' = a
  /\ pre' = Regs
  /\ trace' = << >>
  /\ ret' = "none"
  /\ pc' = Entry(f)
  /\ UNCHANGED <<OSCCTRL, mcctrl, PLL, GCCTRL, fws, poscsr, prog>>

\* what the caller of function f receives from a return statement with value v
Delivered(f, v) ==
  IF ReturnsVoid(f) THEN "void" ELSE IF v = 1 THEN "true" ELSE "false"

\* the events evs, then the return statement at source line l with value v
\* (0 or 1; a void function that reaches its end has v = 0)
Return(evs, l, v) ==
  /\ pc' = "ret"
  /\ trace' = trace \o evs \o <<Ev("ret", l, 0, v)>>
  /\ ret' = Delivered(op, v)

\* the caller goes on after the call
Continue ==
  /\ pc = "ret"
  /\ pc' = "idle"
  /\ op' = "none"
  /\ args' = NoArgs
  /\ ret' = "none"
  /\ pre' = ResetRegs
  /\ trace' = << >>
  /\ UNCHANGED <<OSCCTRL, mcctrl, PLL, GCCTRL, fws, poscsr, calls, prog>>

(***************************************************************************)
(* AVR32CLK_StartExternalOscillator                                        *)
(***************************************************************************)
CallStartExternalOscillator ==
  \E ch \in ChannelArgs, ty \in TypeArgs, st \in StartupArgs :
    Call("StartExternalOscillator",
         [NoArgs EXCEPT !.Channel = ch, !.Type = ty, !.Startup = st])

\* switch (Channel): case 0, case 1: OSCCTRLn.startup = Startup; default: return false
SO_startup ==
  /\ pc = "SO_startup"
  /\ IF args.Channel \in OscChannels
       THEN /\ OSCCTRL' = [OSCCTRL EXCEPT ![args.Channel].startup = args.Startup]
            /\ Log(Ev("w", "startup", args.Channel, args.Startup))
            /\ pc' = "SO_mode"
            /\ UNCHANGED ret
       ELSE /\ Return(<< >>, "148", 0)
            /\ UNCHANGED OSCCTRL
  /\ UNCHANGED <<mcctrl, PLL, GCCTRL, fws, poscsr, op, args, pre, calls, prog>>

\* OSCCTRLn.mode = Type
SO_mode ==
  /\ pc = "SO_mode"
  /\ OSCCTRL' = [OSCCTRL EXCEPT ![args.Channel].mode = args.Type]
  /\ Log(Ev("w", "mode", args.Channel, args.Type))
  /\ pc' = "SO_enable"
  /\ UNCHANGED <<mcctrl, PLL, GCCTRL, fws, poscsr, op, args, ret, pre, calls, prog>>

\* the enable bit of oscillator 0 set whatever the channel
StartOscEnableBit_Channel0(Channel) == AVR32_PM_MCCTRL_OSC0EN_OFFSET

\* the bit of mcctrl the function sets
StartOscEnableBit(Channel) == AVR32_PM_MCCTRL_OSC0EN_OFFSET + Channel

\* AVR32_PM.mcctrl |= (1 << (AVR32_PM_MCCTRL_OSC0EN_OFFSET + Channel))
SO_enable ==
  /\ pc = "SO_enable"
  /\ mcctrl' = mcctrl \cup {StartOscEnableBit(args.Channel)}
  /\ Log(Ev("w", "oscen", StartOscEnableBit(args.Channel), 1))
  /\ pc' = "SO_poll"
  /\ UNCHANGED <<OSCCTRL, PLL, GCCTRL, fws, poscsr, op, args, ret, pre, calls, prog>>

\* the ready bit of oscillator 0 polled whatever the channel
StartOscReadyBit_Channel0(Channel) == AVR32_PM_POSCSR_OSC0RDY_OFFSET

\* the bit of poscsr the function waits for
StartOscReadyBit(Channel) == AVR32_PM_POSCSR_OSC0RDY_OFFSET + Channel

\* while (!(AVR32_PM.poscsr & (1 << (OSC0RDY_OFFSET + Channel)))); return true;
\* the loop is left when the bit is read as 1
SO_poll ==
  /\ pc = "SO_poll"
  /\ StartOscReadyBit(args.Channel) \in poscsr
  /\ Return(<<Ev("poll", "poscsr", StartOscReadyBit(args.Channel), 1)>>, "154", 1)
  /\ UNCHANGED <<OSCCTRL, mcctrl, PLL, GCCTRL, fws, poscsr, op, args, pre,
                 calls, prog>>

(***************************************************************************)
(* AVR32CLK_StopExternalOscillator                                         *)
(***************************************************************************)
CallStopExternalOscillator ==
  \E ch \in StopChannelArgs :
    Call("StopExternalOscillator", [NoArgs EXCEPT !.Channel = ch])

\* the bits of the int 1 << n: a shift by the width of int or more is
\* undefined, and leaves 0 or 1 shifted by n modulo the width
ShiftedOne(n) == IF n < 32 THEN {{n}} ELSE {{}, {n % 32}}

\* AVR32_PM.mcctrl &= ~(1 << (AVR32_PM_MCCTRL_OSC0EN_OFFSET + Channel))
XO_disable ==
  /\ pc = "XO_disable"
  /\ \E m \in ShiftedOne(AVR32_PM_MCCTRL_OSC0EN_OFFSET + args.Channel) :
       mcctrl' = mcctrl \ m
  /\ Return(<<Ev("w", "oscen", AVR32_PM_MCCTRL_OSC0EN_OFFSET + args.Channel, 0)>>,
            "165", 0)
  /\ UNCHANGED <<OSCCTRL, PLL, GCCTRL, fws, poscsr, op, args, pre, calls, prog>>

(***************************************************************************)
(* uint32_t division.  A division by zero is undefined: the build either   *)
(* traps or leaves some value in the result.                               *)
(***************************************************************************)
Quotients(n, d) == IF d = 0 THEN UndefinedQuotients ELSE {n \div d}
Traps(d) == IF d = 0 THEN {TRUE, FALSE} ELSE {FALSE}
DivEvents(d) == IF d = 0 THEN <<Ev("div0", "div", 0, 0)>> ELSE << >>
\* q / 2, the decrement forgotten
HalfOfPred_NoDecrement(q) == q \div 2

\* (q - 1) / 2 in uint32_t arithmetic
HalfOfPred(q) == IF q = 0 THEN UINT32_MAX_HALF ELSE (q - 1) \div 2

\* the CPU has trapped in the middle of the function, which never returns
Fault(evs) ==
  /\ pc' = "fault"
  /\ trace' = trace \o evs
  /\ UNCHANGED ret

(***************************************************************************)
(* PLL[Channel] and GCCTRL[Channel] are indexed without a check of         *)
(* Channel.  An element past the end of the array is undefined: in a given *)
(* build it is some other memory, either outside the registers modelled    *)
(* (Alias = -1) or the control register of oscillator 0 (Alias = 0), a     *)
(* field of which takes the value stored.  A status bit that               *)
(* belongs to no oscillator or PLL modelled may be read as 0 or as 1.      *)
(***************************************************************************)
Aliases(Channel, valid) == IF Channel \in valid THEN {-1} ELSE {-1, 0}

OutOfBoundsStore(v) ==
  OSCCTRL' = IF args.Alias \in OscChannels
               THEN [OSCCTRL EXCEPT ![args.Alias].mode = v]
               ELSE OSCCTRL

ModelledStatusBits ==
  {AVR32_PM_POSCSR_LOCK0_OFFSET + c : c \in PllChannels}
    \cup {AVR32_PM_POSCSR_OSC0RDY_OFFSET + c : c \in OscChannels}
MayRead1(bit) == bit \in poscsr \/ bit \notin ModelledStatusBits

(***************************************************************************)
(* AVR32CLK_StartPLL                                                       *)
(***************************************************************************)
CallStartPLL ==
  \E ch \in PllChannelArgs :
    \E src \in PllSourceArgs(ch), f \in PllFreqArgsOf(ch),
       al \in Aliases(ch, PllChannels) :
      Call("StartPLL", [NoArgs EXCEPT !.Channel = ch, !.Source = src,
                                      !.SourceFreq = f[1], !.Frequency = f[2],
                                      !.Alias = al])

\* PLL[Channel].field = v
PllStore(Channel, field, v) ==
  IF Channel \in PllChannels
    THEN /\ PLL' = [PLL EXCEPT ![Channel][field] = v]
         /\ UNCHANGED OSCCTRL
    ELSE /\ OutOfBoundsStore(v)
         /\ UNCHANGED PLL

\* a PLL accepted as the source of a PLL
PllSourceValid_WithPLL0(Source) ==
  Source \in {CLOCK_SRC_OSC0, CLOCK_SRC_OSC1, CLOCK_SRC_PLL0}

\* the sources the switch of AVR32CLK_StartPLL has a case for
PllSourceValid(Source) == Source \in {CLOCK_SRC_OSC0, CLOCK_SRC_OSC1}
PllOscOf(Source) == IF Source = CLOCK_SRC_OSC0 THEN 0 ELSE 1

\* switch (Source): PLL[Channel].pllosc = 0 or 1; default: return false
SP_pllosc ==
  /\ pc = "SP_pllosc"
  /\ IF PllSourceValid(args.Source)
       THEN /\ PllStore(args.Channel, "pllosc", PllOscOf(args.Source))
            /\ Log(Ev("w", "pllosc", args.Channel, PllOscOf(args.Source)))
            /\ pc' = "SP_pllmul"
            /\ UNCHANGED ret
       ELSE /\ Return(<< >>, "194", 0)
            /\ UNCHANGED <<PLL, OSCCTRL>>
  /\ UNCHANGED <<mcctrl, GCCTRL, fws, poscsr, op, args, pre, calls, prog>>

\* the multiplier computed without the test of the quotient
PllMul_Unguarded(q1, q2) == HalfOfPred(q2)

\* (Frequency / SourceFreq) ? (((Frequency / SourceFreq) - 1) / 2) : 0,
\* q1 and q2 being the values of the two divisions
PllMul(q1, q2) == IF q1 # 0 THEN HalfOfPred(q2) ELSE 0

\* PLL[Channel].pllmul = (Frequency / SourceFreq) ? ... : 0
SP_pllmul ==
  /\ pc = "SP_pllmul"
  /\ \E q1 \in Quotients(args.Frequency, args.SourceFreq),
        q2 \in Quotients(args.Frequency, args.SourceFreq),
        trap \in Traps(args.SourceFreq) :
       IF trap
         THEN /\ Fault(DivEvents(args.SourceFreq))
              /\ UNCHANGED <<PLL, OSCCTRL>>
         ELSE /\ PllStore(args.Channel, "pllmul", PllMul(q1, q2))
              /\ trace' = trace \o DivEvents(args.SourceFreq)
                            \o <<Ev("w", "pllmul", args.Channel, PllMul(q1, q2))>>
              /\ pc' = "SP_plldiv"
              /\ UNCHANGED ret
  /\ UNCHANGED <<mcctrl, GCCTRL, fws, poscsr, op, args, pre, calls, prog>>

\* PLL[Channel].plldiv = 0
SP_plldiv ==
  /\ pc = "SP_plldiv"
  /\ PllStore(args.Channel, "plldiv", 0)
  /\ Log(Ev("w", "plldiv", args.Channel, 0))
  /\ pc' = "SP_pllen"
  /\ UNCHANGED <<mcctrl, GCCTRL, fws, poscsr, op, args, ret, pre, calls, prog>>

\* PLL[Channel].pllen = true
SP_pllen ==
  /\ pc = "SP_pllen"
  /\ PllStore(args.Channel, "pllen", 1)
  /\ Log(Ev("w", "pllen", args.Channel, 1))
  /\ pc' = "SP_poll"
  /\ UNCHANGED <<mcctrl, GCCTRL, fws, poscsr, op, args, ret, pre, calls, prog>>

\* the lock bit of PLL 0 polled whatever the channel
StartPllLockBit_Channel0(Channel) == AVR32_PM_POSCSR_LOCK0_OFFSET

\* the bit of poscsr the function waits for
StartPllLockBit(Channel) == AVR32_PM_POSCSR_LOCK0_OFFSET + Channel

\* while (!(AVR32_PM.poscsr & (1 << (LOCK0_OFFSET + Channel)))); return true;
SP_poll ==
  /\ pc = "SP_poll"
  /\ MayRead1(StartPllLockBit(args.Channel))
  /\ Return(<<Ev("poll", "poscsr", StartPllLockBit(args.Channel), 1)>>, "202", 1)
  /\ UNCHANGED <<OSCCTRL, mcctrl, PLL, GCCTRL, fws, poscsr, op, args, pre,
                 calls, prog>>

(***************************************************************************)
(* AVR32CLK_StopPLL                                                        *)
(***************************************************************************)
CallStopPLL ==
  \E ch \in PllChannelArgs :
    \E al \in Aliases(ch, PllChannels) :
      Call("StopPLL", [NoArgs EXCEPT !.Channel = ch, !.Alias = al])

\* PLL[Channel].pllen = false
XP_pllen ==
  /\ pc = "XP_pllen"
  /\ PllStore(args.Channel, "pllen", 0)
  /\ Return(<<Ev("w", "pllen", args.Channel, 0)>>, "213", 0)
  /\ UNCHANGED <<mcctrl, GCCTRL, fws, poscsr, op, args, pre, calls, prog>>

(***************************************************************************)
(* AVR32CLK_StartGenericClock                                              *)
(***************************************************************************)
CallStartGenericClock ==
  \E ch \in GClkChannelArgs :
    \E src \in GClkSourceArgs(ch), f \in GClkFreqArgsOf(ch),
       al \in Aliases(ch, GClkChannels) :
      Call("StartGenericClock", [NoArgs EXCEPT !.Channel = ch, !.Source = src,
                                               !.SourceFreq = f[1],
                                               !.Frequency = f[2],
                                               !.Alias = al])

\* GCCTRL[Channel].field = v
GClkStore(Channel, field, v) ==
  IF Channel \in GClkChannels
    THEN /\ GCCTRL' = [GCCTRL EXCEPT ![Channel][field] = v]
         /\ UNCHANGED OSCCTRL
    ELSE /\ OutOfBoundsStore(v)
         /\ UNCHANGED GCCTRL

\* the slow clock accepted as the source of a generic clock
GClkSourceValid_WithSlowClk(Source) == Source <= CLOCK_SRC_PLL1

\* the sources the switch of AVR32CLK_StartGenericClock has a case for
GClkSourceValid(Source) ==
  Source \in {CLOCK_SRC_OSC0, CLOCK_SRC_OSC1, CLOCK_SRC_PLL0, CLOCK_SRC_PLL1}
GClkPllSel(Source) == IF Source \in {CLOCK_SRC_PLL0, CLOCK_SRC_PLL1} THEN 1 ELSE 0
GClkOscSel(Source) == IF Source \in {CLOCK_SRC_OSC1, CLOCK_SRC_PLL1} THEN 1 ELSE 0

\* switch (Source): GCCTRL[Channel].pllsel = ...; default: return false
SG_pllsel ==
  /\ pc = "SG_pllsel"
  /\ IF GClkSourceValid(args.Source)
       THEN /\ GClkStore(args.Channel, "pllsel", GClkPllSel(args.Source))
            /\ Log(Ev("w", "pllsel", args.Channel, GClkPllSel(args.Source)))
            /\ pc' = "SG_oscsel"
            /\ UNCHANGED ret
       ELSE /\ Return(<< >>, "252", 0)
            /\ UNCHANGED <<GCCTRL, OSCCTRL>>
  /\ UNCHANGED <<mcctrl, PLL, fws, poscsr, op, args, pre, calls, prog>>

\* GCCTRL[Channel].oscsel = ...
SG_oscsel ==
  /\ pc = "SG_oscsel"
  /\ GClkStore(args.Channel, "oscsel", GClkOscSel(args.Source))
  /\ Log(Ev("w", "oscsel", args.Channel, GClkOscSel(args.Source)))
  /\ pc' = "SG_diven"
  /\ UNCHANGED <<mcctrl, PLL, fws, poscsr, op, args, ret, pre, calls, prog>>

\* the frequencies the function rejects: if (SourceFreq < Frequency)
GClkFreqRejected(SourceFreq, Frequency) == SourceFreq < Frequency
\* the divider enabled for equal frequencies too
GClkDivEn_Inclusive(SourceFreq, Frequency) == Bool(SourceFreq >= Frequency)

\* (SourceFreq > Frequency) ? true : false
GClkDivEn(SourceFreq, Frequency) == Bool(SourceFreq > Frequency)

\* if (SourceFreq < Frequency) return false;
\* GCCTRL[Channel].diven = (SourceFreq > Frequency) ? true : false
SG_diven ==
  /\ pc = "SG_diven"
  /\ IF GClkFreqRejected(args.SourceFreq, args.Frequency)
       THEN /\ Return(<< >>, "256", 0)
            /\ UNCHANGED <<GCCTRL, OSCCTRL>>
       ELSE /\ GClkStore(args.Channel, "diven", GClkDivEn(args.SourceFreq, args.Frequency))
            /\ Log(Ev("w", "diven", args.Channel,
                      GClkDivEn(args.SourceFreq, args.Frequency)))
            /\ pc' = "SG_div"
            /\ UNCHANGED ret
  /\ UNCHANGED <<mcctrl, PLL, fws, poscsr, op, args, pre, calls, prog>>

\* ((SourceFreq / Frequency) - 1) / 2, q being the value of the division
GClkDiv(q) == HalfOfPred(q)

\* GCCTRL[Channel].div = (((SourceFreq / Frequency) - 1) / 2)
SG_div ==
  /\ pc = "SG_div"
  /\ \E q \in Quotients(args.SourceFreq, args.Frequency),
        trap \in Traps(args.Frequency) :
       IF trap
         THEN /\ Fault(DivEvents(args.Frequency))
              /\ UNCHANGED <<GCCTRL, OSCCTRL>>
         ELSE /\ GClkStore(args.Channel, "div", GClkDiv(q))
              /\ trace' = trace \o DivEvents(args.Frequency)
                            \o <<Ev("w", "div", args.Channel, GClkDiv(q))>>
              /\ pc' = "SG_cen"
              /\ UNCHANGED ret
  /\ UNCHANGED <<mcctrl, PLL, fws, poscsr, op, args, pre, calls, prog>>

\* GCCTRL[Channel].cen = true; return true
SG_cen ==
  /\ pc = "SG_cen"
  /\ GClkStore(args.Channel, "cen", 1)
  /\ Return(<<Ev("w", "cen", args.Channel, 1)>>, "262", 1)
  /\ UNCHANGED <<mcctrl, PLL, fws, poscsr, op, args, pre, calls, prog>>

(***************************************************************************)
(* AVR32CLK_StopGenericClock                                               *)
(***************************************************************************)
CallStopGenericClock ==
  \E ch \in GClkChannelArgs :
    \E al \in Aliases(ch, GClkChannels) :
      Call("StopGenericClock", [NoArgs EXCEPT !.Channel = ch, !.Alias = al])

\* the whole channel put back to its reset value
XG_cen_ResetsChannel ==
  /\ pc = "XG_cen"
  /\ GCCTRL' = [GCCTRL EXCEPT ![args.Channel] = ResetRegs.GCCTRL[0]]
  /\ Return(<<Ev("w", "cen", args.Channel, 0)>>, "273", 0)
  /\ UNCHANGED <<OSCCTRL, mcctrl, PLL, fws, poscsr, op, args, pre, calls, prog>>

\* GCCTRL[Channel].cen = false
XG_cen ==
  /\ pc = "XG_cen"
  /\ GClkStore(args.Channel, "cen", 0)
  /\ Return(<<Ev("w", "cen", args.Channel, 0)>>, "273", 0)
  /\ UNCHANGED <<mcctrl, PLL, fws, poscsr, op, args, pre, calls, prog>>

(***************************************************************************)
(* AVR32CLK_SetCPUClockSource                                              *)
(***************************************************************************)
CallSetCPUClockSource ==
  \E src \in SourceArgs, sf \in CpuFreqArgs :
    Call("SetCPUClockSource", [NoArgs EXCEPT !.Source = src, !.SourceFreq = sf])

\* the threshold itself taken as needing the wait state
FlashWaitState_Inclusive(SourceFreq) == Bool(SourceFreq >= FWS_THRESHOLD)

\* (SourceFreq > 30000000) ? true : false
FlashWaitState(SourceFreq) == Bool(SourceFreq > FWS_THRESHOLD)

\* AVR32_FLASHC.FCR.fws = (SourceFreq > 30000000) ? true : false
CC_fws ==
  /\ pc = "CC_fws"
  /\ fws' = FlashWaitState(args.SourceFreq)
  /\ Log(Ev("w", "fws", 0, FlashWaitState(args.SourceFreq)))
  /\ pc' = "CC_mcsel"
  /\ UNCHANGED <<OSCCTRL, mcctrl, PLL, GCCTRL, poscsr, op, args, ret, pre, calls, prog>>

\* every source up to PLL0 accepted as the source of the CPU clock
CpuSourceValid_UpToPLL0(Source) == Source <= CLOCK_SRC_PLL0

\* the sources the switch of AVR32CLK_SetCPUClockSource has a case for
CpuSourceValid(Source) ==
  Source \in {CLOCK_SRC_SLOW_CLK, CLOCK_SRC_OSC0, CLOCK_SRC_PLL0}
CpuMcselOf(Source) ==
  IF Source = CLOCK_SRC_SLOW_CLK THEN 0
  ELSE IF Source = CLOCK_SRC_OSC0 THEN 1 ELSE 2

\* switch (Source): MCCTRL.mcsel = 0, 1 or 2; default: return false; return true
CC_mcsel ==
  /\ pc = "CC_mcsel"
  /\ IF CpuSourceValid(args.Source)
       THEN /\ mcctrl' = WithMcsel(mcctrl, CpuMcselOf(args.Source))
            /\ Return(<<Ev("w", "mcsel", 0, CpuMcselOf(args.Source))>>, "307", 1)
       ELSE /\ Return(<< >>, "304", 0)
            /\ UNCHANGED mcctrl
  /\ UNCHANGED <<OSCCTRL, PLL, GCCTRL, fws, poscsr, op, args, pre, calls, prog>>

(***************************************************************************)
(* The hardware: the status bits of poscsr the driver polls.  An           *)
(* oscillator may become ready once it is enabled and a PLL may lock once  *)
(* it is enabled; the bit drops when the unit has been disabled.           *)
(***************************************************************************)
HwOscReady ==
  \E c \in OscChannels :
    /\ OscEnabled(c)
    /\ (AVR32_PM_POSCSR_OSC0RDY_OFFSET + c) \notin poscsr
    /\ poscsr' = poscsr \cup {AVR32_PM_POSCSR_OSC0RDY_OFFSET + c}
    /\ UNCHANGED <<OSCCTRL, mcctrl, PLL, GCCTRL, fws, pc, op, args, ret, pre,
                   trace, calls, prog>>

HwOscStopped ==
  \E c \in OscChannels :
    /\ ~OscEnabled(c)
    /\ (AVR32_PM_POSCSR_OSC0RDY_OFFSET + c) \in poscsr
    /\ poscsr' = poscsr \ {AVR32_PM_POSCSR_OSC0RDY_OFFSET + c}
    /\ UNCHANGED <<OSCCTRL, mcctrl, PLL, GCCTRL, fws, pc, op, args, ret, pre,
                   trace, calls, prog>>

HwPllLock ==
  \E c \in PllChannels :
    /\ PLL[c].pllen = 1
    /\ (AVR32_PM_POSCSR_LOCK0_OFFSET + c) \notin poscsr
    /\ poscsr' = poscsr \cup {AVR32_PM_POSCSR_LOCK0_OFFSET + c}
    /\ UNCHANGED <<OSCCTRL, mcctrl, PLL, GCCTRL, fws, pc, op, args, ret, pre,
                   trace, calls, prog>>

HwPllUnlock ==
  \E c \in PllChannels :
    /\ PLL[c].pllen = 0
    /\ (AVR32_PM_POSCSR_LOCK0_OFFSET + c) \in poscsr
    /\ poscsr' = poscsr \ {AVR32_PM_POSCSR_LOCK0_OFFSET + c}
    /\ UNCHANGED <<OSCCTRL, mcctrl, PLL, GCCTRL, fws, pc, op, args, ret, pre,
                   trace, calls, prog>>

(***************************************************************************)
(* Any calls, one after the other, from the state after reset.             *)
(***************************************************************************)
Next ==
  \/ CallStartExternalOscillator \/ SO_startup \/ SO_mode \/ SO_enable \/ SO_poll
  \/ CallStopExternalOscillator \/ XO_disable
  \/ CallStartPLL \/ SP_pllosc \/ SP_pllmul \/ SP_plldiv \/ SP_pllen \/ SP_poll
  \/ CallStopPLL \/ XP_pllen
  \/ CallStartGenericClock \/ SG_pllsel \/ SG_oscsel \/ SG_diven \/ SG_div \/ SG_cen
  \/ CallStopGenericClock \/ XG_cen
  \/ CallSetCPUClockSource \/ CC_fws \/ CC_mcsel
  \/ Continue
  \/ HwOscReady \/ HwOscStopped \/ HwPllLock \/ HwPllUnlock

Spec == Init /\ [][Next]_vars

\* the steps of the CPU
CpuStep ==
  \/ CallStartExternalOscillator \/ SO_startup \/ SO_mode \/ SO_enable \/ SO_poll
  \/ CallStopExternalOscillator \/ XO_disable
  \/ CallStartPLL \/ SP_pllosc \/ SP_pllmul \/ SP_plldiv \/ SP_pllen \/ SP_poll
  \/ CallStopPLL \/ XP_pllen
  \/ CallStartGenericClock \/ SG_pllsel \/ SG_oscsel \/ SG_diven \/ SG_div \/ SG_cen
  \/ CallStopGenericClock \/ XG_cen
  \/ CallSetCPUClockSource \/ CC_fws \/ CC_mcsel
  \/ Continue

\* the same calls when the CPU keeps executing and an enabled oscillator or
\* PLL eventually becomes ready or locks
FairSpec ==
  /\ Init /\ [][Next]_vars
  /\ WF_vars(CpuStep)
  /\ WF_vars(HwOscReady)
  /\ WF_vars(HwPllLock)

(***************************************************************************)
(* The same calls on a board clocked as in the usage example (a 12 MHz     *)
(* crystal on each oscillator, each PLL at 48 MHz, the slow clock at       *)
(* 115 kHz), where AVR32CLK_SetCPUClockSource is always given the          *)
(* frequency its Source runs at.                                           *)
(***************************************************************************)
BoardFreq(Source) ==
  CASE Source = CLOCK_SRC_SLOW_CLK -> 115000
    [] Source \in {CLOCK_SRC_OSC0, CLOCK_SRC_OSC1} -> 12000000
    [] Source \in {CLOCK_SRC_PLL0, CLOCK_SRC_PLL1} -> 48000000

CallSetCPUClockSourceAtBoardFreq ==
  \E src \in SourceArgs \ {5} :
    Call("SetCPUClockSource",
         [NoArgs EXCEPT !.Source = src, !.SourceFreq = BoardFreq(src)])

BoardNext ==
  \/ CallStartExternalOscillator \/ SO_startup \/ SO_mode \/ SO_enable \/ SO_poll
  \/ CallStopExternalOscillator \/ XO_disable
  \/ CallStartPLL \/ SP_pllosc \/ SP_pllmul \/ SP_plldiv \/ SP_pllen \/ SP_poll
  \/ CallStopPLL \/ XP_pllen
  \/ CallStartGenericClock \/ SG_pllsel \/ SG_oscsel \/ SG_diven \/ SG_div \/ SG_cen
  \/ CallStopGenericClock \/ XG_cen
  \/ CallSetCPUClockSourceAtBoardFreq \/ CC_fws \/ CC_mcsel
  \/ Continue
  \/ HwOscReady \/ HwOscStopped \/ HwPllLock \/ HwPllUnlock

BoardSpec == Init /\ [][BoardNext]_vars

(***************************************************************************)
(* The usage example of the header, built with some F_CPU:                 *)
(*   AVR32CLK_StartExternalOscillator(0, EXOSC_MODE_8MHZ_OR_MORE,          *)
(*                                    EXOSC_START_0CLK);                   *)
(*   AVR32CLK_StartPLL(0, CLOCK_SRC_OSC0, 12000000, F_CPU);                *)
(*   AVR32CLK_SetCPUClockSource(CLOCK_SRC_PLL0, F_CPU);                    *)
(*   AVR32CLK_StartPLL(1, CLOCK_SRC_OSC0, 12000000, 48000000);             *)
(***************************************************************************)
CallOf(f, a) == [f |-> f, a |-> a]

UsageExample(F_CPU) ==
  << CallOf("StartExternalOscillator",
            [NoArgs EXCEPT !.Channel = 0, !.Type = EXOSC_MODE_8MHZ_OR_MORE,
                           !.Startup = EXOSC_START_0CLK]),
     CallOf("StartPLL",
            [NoArgs EXCEPT !.Channel = 0, !.Source = CLOCK_SRC_OSC0,
                           !.SourceFreq = 12000000, !.Frequency = F_CPU]),
     CallOf("SetCPUClockSource",
            [NoArgs EXCEPT !.Source = CLOCK_SRC_PLL0, !.SourceFreq = F_CPU]),
     CallOf("StartPLL",
            [NoArgs EXCEPT !.Channel = 1, !.Source = CLOCK_SRC_OSC0,
                           !.SourceFreq = 12000000, !.Frequency = 48000000]) >>

ExampleInit ==
  /\ OSCCTRL = ResetRegs.OSCCTRL
  /\ mcctrl = ResetRegs.mcctrl
  /\ PLL = ResetRegs.PLL
  /\ GCCTRL = ResetRegs.GCCTRL
  /\ fws = ResetRegs.fws
  /\ poscsr = {}
  /\ pc = "idle"
  /\ op = "none"
  /\ args = NoArgs
  /\ ret = "none"
  /\ pre = ResetRegs
  /\ trace = << >>
  /\ calls = 0
  /\ \E f \in F_CPU_Args : prog = UsageExample(f)

\* main() makes its next call; the trace of the example is kept whole
ExampleCall ==
  /\ pc = "idle"
  /\ prog # << >>
  /\ op' = Head(prog).f
  /\ args' = Head(prog).a
  /\ prog' = Tail(prog)
  /\ calls' = calls + 1
  /\ pre' = Regs
  /\ ret' = "none"
  /\ pc' = Entry(Head(prog).f)
  /\ UNCHANGED <<OSCCTRL, mcctrl, PLL, GCCTRL, fws, poscsr, trace>>

\* main() ignores what the call returned
ExampleContinue ==
  /\ pc = "ret"
  /\ pc' = "idle"
  /\ UNCHANGED <<OSCCTRL, mcctrl, PLL, GCCTRL, fws, poscsr, op, args, ret, pre,
                 trace, calls, prog>>

ExampleStep ==
  \/ SO_startup \/ SO_mode \/ SO_enable \/ SO_poll
  \/ SP_pllosc \/ SP_pllmul \/ SP_plldiv \/ SP_pllen \/ SP_poll
  \/ CC_fws \/ CC_mcsel

ExampleNext ==
  \/ ExampleCall \/ ExampleContinue
  \/ ExampleStep
  \/ HwOscReady \/ HwPllLock

\* the CPU keeps executing, and an enabled oscillator or PLL eventually
\* becomes ready or locks
ExampleSpec ==
  /\ ExampleInit /\ [][ExampleNext]_vars
  /\ WF_vars(ExampleCall \/ ExampleContinue \/ ExampleStep)
  /\ WF_vars(HwOscReady)
  /\ WF_vars(HwPllLock)

(***************************************************************************)
(* Reading the trace of a call.                                            *)
(***************************************************************************)
\* positions of the events of kind k on f
EvIdx(k, f) == {i \in 1 .. Len(trace) : trace[i].k = k /\ trace[i].f = f}
\* positions of the events of kind k
KindIdx(k) == {i \in 1 .. Len(trace) : trace[i].k = k}
\* every event at a position of T comes after some event at a position of S
Precedes(S, T) == \A j \in T : \E i \in S : i < j
\* the function f has returned to its caller
Returned(f) == pc = "ret" /\ op = f
\* the return statement the call has executed
RetEv == trace[Len(trace)]

(***************************************************************************)
(* C1: in every execution of SetCPUClockSource the flash wait state bit is *)
(* written before the CPU clock selector, with the value 1 exactly when    *)
(* SourceFreq > 30,000,000; for a valid source the selector is then        *)
(* written as SlowInternalClock -> 0, Oscillator0 -> 1, PLL0 -> 2 and the  *)
(* call returns true without having polled a status bit.                   *)
(***************************************************************************)
C1_ExpectedMcsel(Source) ==
  CASE Source = CLOCK_SRC_SLOW_CLK -> 0
    [] Source = CLOCK_SRC_OSC0 -> 1
    [] Source = CLOCK_SRC_PLL0 -> 2

C1_WaitStateBeforeSelector ==
  op = "SetCPUClockSource" =>
    LET ws == IF args.SourceFreq > 30000000 THEN 1 ELSE 0 IN
    /\ Precedes(EvIdx("w", "fws"), EvIdx("w", "mcsel"))
    /\ KindIdx("poll") = {}
    /\ pc # "CC_fws" => /\ trace[1] = Ev("w", "fws", 0, ws)
                        /\ fws = ws
    /\ pc = "CC_mcsel" => mcctrl = pre.mcctrl
    /\ (pc = "ret" /\ args.Source \in {CLOCK_SRC_SLOW_CLK, CLOCK_SRC_OSC0, CLOCK_SRC_PLL0}) =>
         /\ trace = << Ev("w", "fws", 0, ws),
                       Ev("w", "mcsel", 0, C1_ExpectedMcsel(args.Source)),
                       Ev("ret", "307", 0, 1) >>
         /\ mcsel = C1_ExpectedMcsel(args.Source)
         /\ ret = "true"

C1_Witness ==
  /\ Returned("SetCPUClockSource")
  /\ args.Source = CLOCK_SRC_PLL0
  /\ args.SourceFreq = 30000001
  /\ pre.fws = 0
  /\ fws = 1
  /\ mcsel = 2

(***************************************************************************)
(* C2: for Channel 0 or 1 and any Type and Startup,                        *)
(* StartExternalOscillator writes exactly the supplied mode and startup    *)
(* into the control register of that channel, sets the enable bit of that  *)
(* channel only after these two fields are written, and reaches its        *)
(* "return true" only after the ready bit of that same channel has been    *)
(* read as 1 (no other status bit is waited for).                          *)
(***************************************************************************)
C2_StartOscillatorOrder ==
  (op = "StartExternalOscillator" /\ args.Channel \in {0, 1}) =>
    LET ch == args.Channel
        enbit == 2 + ch
        rdybit == 7 + ch
    IN
    /\ Precedes(EvIdx("w", "startup"), EvIdx("w", "oscen"))
    /\ Precedes(EvIdx("w", "mode"), EvIdx("w", "oscen"))
    /\ \A i \in KindIdx("w") :
         \/ trace[i] = Ev("w", "startup", ch, args.Startup)
         \/ trace[i] = Ev("w", "mode", ch, args.Type)
         \/ trace[i] = Ev("w", "oscen", enbit, 1)
    /\ (enbit \in mcctrl /\ enbit \notin pre.mcctrl) =>
         OSCCTRL[ch] = [startup |-> args.Startup, mode |-> args.Type]
    /\ \A i \in KindIdx("poll") : trace[i] = Ev("poll", "poscsr", rdybit, 1)
    /\ pc = "ret" =>
         /\ RetEv = Ev("ret", "154", 0, 1)
         /\ Precedes(EvIdx("w", "oscen"), KindIdx("poll"))
         /\ Precedes(KindIdx("poll"), KindIdx("ret"))
         /\ OSCCTRL[ch] = [startup |-> args.Startup, mode |-> args.Type]
         /\ enbit \in mcctrl

C2_Witness ==
  /\ Returned("StartExternalOscillator")
  /\ args.Channel = 1
  /\ args.Type = EXOSC_MODE_8MHZ_OR_MORE
  /\ args.Startup = EXOSC_START_16384CLK
  /\ RetEv.v = 1
  /\ 8 \in poscsr
  /\ 7 \notin poscsr

(***************************************************************************)
(* C3: StartExternalOscillator called with a Channel other than 0 and 1    *)
(* fails in a way its caller can observe (it delivers false), writes no    *)
(* register and does not wait for a ready bit.                             *)
(***************************************************************************)
C3_InvalidChannelObservable ==
  (Returned("StartExternalOscillator") /\ args.Channel \notin {0, 1}) =>
    /\ ret = "false"
    /\ Regs = pre
    /\ KindIdx("w") = {}
    /\ KindIdx("poll") = {}

(***************************************************************************)
(* C4: for a Source of Oscillator0 or Oscillator1, StartPLL writes the     *)
(* oscillator select (0 for Oscillator0, 1 for Oscillator1), the           *)
(* multiplier and the divider 0 of the PLL channel before it sets the      *)
(* enable bit of that channel, and returns true only after the lock bit    *)
(* of that same channel has been read as 1.                                *)
(***************************************************************************)
C4_StartPLLOrder ==
  (op = "StartPLL" /\ args.Source \in {CLOCK_SRC_OSC0, CLOCK_SRC_OSC1}
     /\ args.Channel \in {0, 1}) =>
    LET ch == args.Channel
        osc == IF args.Source = CLOCK_SRC_OSC0 THEN 0 ELSE 1
    IN
    /\ Precedes(EvIdx("w", "pllosc"), EvIdx("w", "pllen"))
    /\ Precedes(EvIdx("w", "pllmul"), EvIdx("w", "pllen"))
    /\ Precedes(EvIdx("w", "plldiv"), EvIdx("w", "pllen"))
    /\ \A i \in KindIdx("w") : trace[i].c = ch
    /\ \A i \in EvIdx("w", "pllosc") : trace[i].v = osc
    /\ \A i \in EvIdx("w", "plldiv") : trace[i].v = 0
    /\ \A i \in EvIdx("w", "pllen") : trace[i].v = 1
    /\ (PLL[ch].pllen = 1 /\ pre.PLL[ch].pllen = 0) =>
         (PLL[ch].pllosc = osc /\ PLL[ch].plldiv = 0)
    /\ \A i \in KindIdx("poll") : trace[i] = Ev("poll", "poscsr", ch, 1)
    /\ pc = "ret" =>
         /\ RetEv = Ev("ret", "202", 0, 1)
         /\ ret = "true"
         /\ Precedes(EvIdx("w", "pllen"), KindIdx("poll"))
         /\ Precedes(KindIdx("poll"), KindIdx("ret"))
         /\ PLL[ch].pllosc = osc /\ PLL[ch].plldiv = 0 /\ PLL[ch].pllen = 1

C4_Witness ==
  /\ Returned("StartPLL")
  /\ args.Source = CLOCK_SRC_OSC1
  /\ args.Channel = 1
  /\ ret = "true"
  /\ PLL[1].pllosc = 1
  /\ 1 \in poscsr
  /\ 0 \notin poscsr

(***************************************************************************)
(* C5: StartPLL called with a Source other than Oscillator0 and            *)
(* Oscillator1 returns false from the default case of its switch           *)
(* (InvalidSource), leaves every field of every PLL channel at its prior   *)
(* value and returns without waiting for the lock bit.                     *)
(***************************************************************************)
C5_StartPLLInvalidSource ==
  (op = "StartPLL" /\ args.Source \notin {CLOCK_SRC_OSC0, CLOCK_SRC_OSC1}) =>
    /\ pc \in {"SP_pllosc", "ret"}
    /\ PLL = pre.PLL
    /\ Regs = pre
    /\ pc = "ret" => (trace = << Ev("ret", "194", 0, 0) >> /\ ret = "false")

C5_Witness ==
  /\ Returned("StartPLL")
  /\ args.Source = CLOCK_SRC_SLOW_CLK
  /\ args.Channel = 0
  /\ ret = "false"
  /\ PLL[0] = [pllosc |-> 1, pllmul |-> 1, plldiv |-> 0, pllen |-> 1]

(***************************************************************************)
(* C6: for every SourceFreq > 0 and every Frequency, the multiplier        *)
(* StartPLL writes is ((Frequency / SourceFreq) - 1) / 2 in truncating     *)
(* unsigned division when Frequency >= SourceFreq, and 0 when              *)
(* Frequency < SourceFreq (so equal frequencies give 0, and 12,000,000     *)
(* with 48,000,000 gives 1).                                               *)
(***************************************************************************)
C6_ExpectedMul(SourceFreq, Frequency) ==
  IF Frequency >= SourceFreq
    THEN ((Frequency \div SourceFreq) - 1) \div 2
    ELSE 0

C6_Multiplier ==
  (op = "StartPLL" /\ args.SourceFreq > 0 /\ args.Channel \in {0, 1}) =>
    /\ \A i \in EvIdx("w", "pllmul") :
         trace[i].v = C6_ExpectedMul(args.SourceFreq, args.Frequency)
    /\ pc \in {"SP_plldiv", "SP_pllen", "SP_poll"} \/ (pc = "ret" /\ RetEv.v = 1) =>
         /\ EvIdx("w", "pllmul") # {}
         /\ PLL[args.Channel].pllmul = C6_ExpectedMul(args.SourceFreq, args.Frequency)
         /\ (args.Frequency = args.SourceFreq) => PLL[args.Channel].pllmul = 0
         /\ (args.SourceFreq = 12000000 /\ args.Frequency = 48000000) =>
              PLL[args.Channel].pllmul = 1

C6_Witness ==
  /\ Returned("StartPLL")
  /\ ret = "true"
  /\ args.SourceFreq = 12000000
  /\ args.Frequency = 48000000
  /\ args.Channel = 1
  /\ PLL[1].pllmul = 1
  /\ pre.PLL[1].pllmul = 0

(***************************************************************************)
(* C7: StartGenericClock called with SourceFreq < Frequency fails          *)
(* (returns false, the only failure value the function has) for every      *)
(* Source and writes no register: pllsel, oscsel, diven, div and cen of    *)
(* the channel are the same after the call as before it.                   *)
(***************************************************************************)
C7_InvalidFrequencyNoWrite ==
  (Returned("StartGenericClock") /\ args.SourceFreq < args.Frequency
     /\ args.Channel \in GClkChannels) =>
    /\ ret = "false"
    /\ GCCTRL[args.Channel] = pre.GCCTRL[args.Channel]
    /\ Regs = pre

(***************************************************************************)
(* C8: for a valid Source and SourceFreq >= Frequency > 0,                 *)
(* StartGenericClock sets diven exactly when SourceFreq > Frequency,       *)
(* writes div = ((SourceFreq / Frequency) - 1) / 2 (truncating; equal      *)
(* frequencies give diven 0 and div 0), maps the source to                 *)
(* (pllsel, oscsel) as Oscillator0 -> (0,0), Oscillator1 -> (0,1),         *)
(* PLL0 -> (1,0), PLL1 -> (1,1), and sets cen last, after all selector and *)
(* divider fields are written.                                             *)
(***************************************************************************)
C8_ExpectedSel(Source) ==
  CASE Source = CLOCK_SRC_OSC0 -> <<0, 0>>
    [] Source = CLOCK_SRC_OSC1 -> <<0, 1>>
    [] Source = CLOCK_SRC_PLL0 -> <<1, 0>>
    [] Source = CLOCK_SRC_PLL1 -> <<1, 1>>

C8_GenericClockConfigured ==
  (op = "StartGenericClock"
     /\ args.Source \in {CLOCK_SRC_OSC0, CLOCK_SRC_OSC1, CLOCK_SRC_PLL0, CLOCK_SRC_PLL1}
     /\ args.SourceFreq >= args.Frequency /\ args.Frequency > 0
     /\ args.Channel \in GClkChannels) =>
    LET ch == args.Channel
        sel == C8_ExpectedSel(args.Source)
        en == IF args.SourceFreq > args.Frequency THEN 1 ELSE 0
        dv == ((args.SourceFreq \div args.Frequency) - 1) \div 2
    IN
    /\ \A i \in KindIdx("w") : trace[i].c = ch
    /\ \A f \in {"pllsel", "oscsel", "diven", "div"} :
         Precedes(EvIdx("w", f), EvIdx("w", "cen"))
    /\ \A i \in EvIdx("w", "cen") : \A j \in KindIdx("w") : j <= i
    /\ pc \notin {"fault"}
    /\ pc = "ret" =>
         /\ ret = "true"
         /\ RetEv = Ev("ret", "262", 0, 1)
         /\ GCCTRL[ch] = [pllsel |-> sel[1], oscsel |-> sel[2], diven |-> en,
                           div |-> dv, cen |-> 1]
         /\ (args.SourceFreq = args.Frequency) =>
              (GCCTRL[ch].diven = 0 /\ GCCTRL[ch].div = 0)

C8_Witness ==
  /\ Returned("StartGenericClock")
  /\ args.Source = CLOCK_SRC_PLL1
  /\ args.SourceFreq = 48000000
  /\ args.Frequency = 12000000
  /\ args.Channel = 1
  /\ GCCTRL[1] = [pllsel |-> 1, oscsel |-> 1, diven |-> 1, div |-> 1, cen |-> 1]
  /\ pre.GCCTRL[1].cen = 0

(***************************************************************************)
(* C9: SetCPUClockSource called with a Source other than                   *)
(* SlowInternalClock, Oscillator0 and PLL0 returns false from the default  *)
(* case of its switch (InvalidSource) and leaves the CPU clock selector    *)
(* unchanged, while the wait state bit has been overwritten with           *)
(* (SourceFreq > 30,000,000) and is not rolled back.                       *)
(***************************************************************************)
C9_InvalidCpuSource ==
  (Returned("SetCPUClockSource")
     /\ args.Source \notin {CLOCK_SRC_SLOW_CLK, CLOCK_SRC_OSC0, CLOCK_SRC_PLL0}) =>
    LET ws == IF args.SourceFreq > 30000000 THEN 1 ELSE 0 IN
    /\ ret = "false"
    /\ trace = << Ev("w", "fws", 0, ws), Ev("ret", "304", 0, 0) >>
    /\ mcsel = McselOf(pre.mcctrl)
    /\ mcctrl = pre.mcctrl
    /\ fws = ws

C9_Witness ==
  /\ Returned("SetCPUClockSource")
  /\ args.Source = CLOCK_SRC_PLL1
  /\ args.SourceFreq = 48000000
  /\ ret = "false"
  /\ pre.fws = 0
  /\ fws = 1
  /\ mcsel = 1

(***************************************************************************)
(* C10: from the state after reset, the calls                              *)
(* StartExternalOscillator(0, EXOSC_MODE_8MHZ_OR_MORE, EXOSC_START_0CLK),  *)
(* StartPLL(0, CLOCK_SRC_OSC0, 12000000, 48000000),                        *)
(* SetCPUClockSource(CLOCK_SRC_PLL0, 48000000), with hardware that         *)
(* eventually raises the ready and lock bits, all complete through their   *)
(* "return true" and end with oscillator 0 enabled and ready, PLL 0        *)
(* enabled with pllosc 0, pllmul 1, plldiv 0 and locked, mcsel = 2 and     *)
(* fws = 1; mcsel is written only after the lock bit of PLL 0 was read     *)
(* as 1.                                                                   *)
(***************************************************************************)
C10_ExampleEnd ==
  /\ Returned("SetCPUClockSource")
  /\ Len(prog) = 1
  /\ SelectSeq(trace, LAMBDA e : e.k = "ret")
       = << Ev("ret", "154", 0, 1), Ev("ret", "202", 0, 1), Ev("ret", "307", 0, 1) >>
  /\ OSCCTRL[0] = [startup |-> 0, mode |-> 4]
  /\ 2 \in mcctrl
  /\ 7 \in poscsr
  /\ PLL[0] = [pllosc |-> 0, pllmul |-> 1, plldiv |-> 0, pllen |-> 1]
  /\ 0 \in poscsr
  /\ mcsel = 2
  /\ fws = 1
  /\ EvIdx("w", "mcsel") # {}
  /\ \A j \in EvIdx("w", "mcsel") :
       /\ trace[j].v = 2
       /\ \E i \in KindIdx("poll") :
            i < j /\ trace[i] = Ev("poll", "poscsr", 0, 1)
       /\ \E i \in EvIdx("w", "fws") : i < j /\ trace[i].v = 1

C10_UsageExample ==
  (pc = "idle" /\ prog = UsageExample(48000000)) ~> C10_ExampleEnd

C10_Witness ==
  /\ Returned("SetCPUClockSource")
  /\ Len(prog) = 1
  /\ args.SourceFreq = 48000000
  /\ mcsel = 2
  /\ fws = 1
  /\ PLL[0].pllmul = 1
  /\ {0, 7} \subseteq poscsr
(***************************************************************************)
(* C11: StartGenericClock called with a Source that is not Oscillator0,    *)
(* Oscillator1, PLL0 or PLL1 returns false from the default case of its    *)
(* switch (InvalidSource) whatever the frequencies are, and writes         *)
(* nothing: the fields of every generic clock channel are unchanged.       *)
(***************************************************************************)
C11_GenericClockInvalidSource ==
  (op = "StartGenericClock"
     /\ args.Source \notin {CLOCK_SRC_OSC0, CLOCK_SRC_OSC1, CLOCK_SRC_PLL0,
                             CLOCK_SRC_PLL1}) =>
    /\ pc \in {"SG_pllsel", "ret"}
    /\ GCCTRL = pre.GCCTRL
    /\ Regs = pre
    /\ pc = "ret" => (trace = << Ev("ret", "252", 0, 0) >> /\ ret = "false")

C11_Witness ==
  /\ Returned("StartGenericClock")
  /\ args.Source = CLOCK_SRC_SLOW_CLK
  /\ args.SourceFreq = 12000000
  /\ args.Frequency = 48000000
  /\ args.Channel = 1
  /\ ret = "false"
  /\ GCCTRL[1] = [pllsel |-> 1, oscsel |-> 1, diven |-> 1, div |-> 1, cen |-> 1]
(***************************************************************************)
(* C12: StopExternalOscillator with Channel 0 or 1 clears only the enable  *)
(* bit of that channel, without waiting for a status bit; with a Channel   *)
(* other than 0 and 1 it fails with InvalidChannel (it delivers false to   *)
(* its caller) and changes no bit of mcctrl, neither an oscillator enable  *)
(* bit nor the CPU clock selector.                                         *)
(***************************************************************************)
C12_StopOscillator ==
  Returned("StopExternalOscillator") =>
    /\ KindIdx("poll") = {}
    /\ args.Channel \in {0, 1} => mcctrl = pre.mcctrl \ {2 + args.Channel}
    /\ args.Channel \notin {0, 1} => (ret = "false" /\ mcctrl = pre.mcctrl)
(***************************************************************************)
(* C13: StartPLL, StopPLL, StartGenericClock and StopGenericClock called   *)
(* with a Channel outside their register array are rejected (they deliver  *)
(* false to their caller) before any register is written: no field of a    *)
(* PLL or of a generic clock, and no register outside these arrays,        *)
(* changes.                                                                *)
(***************************************************************************)
C13_InvalidChannelRejected ==
  \/ (op \in {"StartPLL", "StopPLL"} /\ args.Channel \notin {0, 1})
  \/ (op \in {"StartGenericClock", "StopGenericClock"}
        /\ args.Channel \notin GClkChannels)
  => /\ KindIdx("w") = {}
     /\ KindIdx("poll") = {}
     /\ Regs = pre
     /\ pc = "ret" => ret = "false"
(***************************************************************************)
(* C14: StopGenericClock clears only the cen bit of its channel: pllsel,   *)
(* oscsel, diven and div keep the values StartGenericClock last gave them, *)
(* whatever calls came before.                                             *)
(***************************************************************************)
C14_StopGenericClockKeepsConfig ==
  (Returned("StopGenericClock") /\ args.Channel \in GClkChannels) =>
    LET ch == args.Channel IN
    /\ GCCTRL[ch].cen = 0
    /\ GCCTRL[ch].pllsel = pre.GCCTRL[ch].pllsel
    /\ GCCTRL[ch].oscsel = pre.GCCTRL[ch].oscsel
    /\ GCCTRL[ch].diven = pre.GCCTRL[ch].diven
    /\ GCCTRL[ch].div = pre.GCCTRL[ch].div
    /\ trace = << Ev("w", "cen", ch, 0), Ev("ret", "273", 0, 0) >>

C14_Witness ==
  /\ Returned("StopGenericClock")
  /\ args.Channel = 1
  /\ pre.GCCTRL[1] = [pllsel |-> 1, oscsel |-> 1, diven |-> 1, div |-> 1, cen |-> 1]
  /\ GCCTRL[1] = [pllsel |-> 1, oscsel |-> 1, diven |-> 1, div |-> 1, cen |-> 0]
(***************************************************************************)
(* C15: only StartExternalOscillator and StartPLL can block.  With valid   *)
(* arguments each returns eventually when the hardware eventually sets     *)
(* the ready (lock) bit of the channel, and does not return unless that    *)
(* bit has been read as 1; StopExternalOscillator, StopPLL,                *)
(* StartGenericClock, StopGenericClock and SetCPUClockSource always        *)
(* return, whatever the status bits are, and so do                         *)
(* StartExternalOscillator and StartPLL when they reject their arguments.  *)
(***************************************************************************)
C15_Running(f) == op = f /\ pc \notin {"idle", "ret"}

C15_OnlyStartsBlock ==
  /\ \A f \in {"StopExternalOscillator", "StopPLL", "StartGenericClock",
                "StopGenericClock", "SetCPUClockSource"} :
       C15_Running(f) ~> (pc = "ret")
  /\ (C15_Running("StartExternalOscillator") /\ args.Channel \notin {0, 1})
       ~> (pc = "ret")
  /\ (C15_Running("StartPLL")
        /\ args.Source \notin {CLOCK_SRC_OSC0, CLOCK_SRC_OSC1}) ~> (pc = "ret")
  /\ (C15_Running("StartExternalOscillator") /\ args.Channel \in {0, 1})
       ~> (pc = "ret")
  /\ (C15_Running("StartPLL") /\ args.Source \in {CLOCK_SRC_OSC0, CLOCK_SRC_OSC1}
        /\ args.Channel \in {0, 1} /\ args.SourceFreq > 0) ~> (pc = "ret")
  /\ []((Returned("StartExternalOscillator") /\ args.Channel \in {0, 1}) =>
          \E i \in KindIdx("poll") : trace[i].c = 7 + args.Channel)
  /\ []((Returned("StartPLL") /\ args.Source \in {CLOCK_SRC_OSC0, CLOCK_SRC_OSC1}
           /\ args.Channel \in {0, 1}) =>
          \E i \in KindIdx("poll") : trace[i].c = args.Channel)
(***************************************************************************)
(* C16: in every reachable state, also between the two register writes of  *)
(* SetCPUClockSource and after a call of it that failed, if the CPU clock  *)
(* selector selects a source that runs above 30 MHz then the flash wait    *)
(* state bit is set, when every SetCPUClockSource call passes the          *)
(* frequency its source runs at.                                           *)
(***************************************************************************)
C16_SelectedSource ==
  CASE mcsel = 1 -> CLOCK_SRC_OSC0
    [] mcsel = 2 -> CLOCK_SRC_PLL0
    [] OTHER -> CLOCK_SRC_SLOW_CLK

C16_WaitStateCoversSelector ==
  BoardFreq(C16_SelectedSource) > 30000000 => fws = 1
(***************************************************************************)
(* C17: an operation called with a valid channel changes only the fields   *)
(* of the channel it names.  Start/StopExternalOscillator on channel c     *)
(* leave the mode, startup and enable bit of the other oscillator and the  *)
(* CPU clock selector unchanged; Start/StopPLL leave the other PLL         *)
(* unchanged; Start/StopGenericClock leave every other generic clock       *)
(* unchanged; none of them changes the registers of another kind, nor the  *)
(* flash wait state bit.                                                   *)
(***************************************************************************)
C17_OnlyNamedChannel ==
  /\ (op \in {"StartExternalOscillator", "StopExternalOscillator"}
        /\ args.Channel \in {0, 1}) =>
       /\ OSCCTRL[1 - args.Channel] = pre.OSCCTRL[1 - args.Channel]
       /\ mcctrl \ {2 + args.Channel} = pre.mcctrl \ {2 + args.Channel}
       /\ McselOf(mcctrl) = McselOf(pre.mcctrl)
       /\ PLL = pre.PLL /\ GCCTRL = pre.GCCTRL /\ fws = pre.fws
  /\ (op \in {"StartPLL", "StopPLL"} /\ args.Channel \in {0, 1}) =>
       /\ PLL[1 - args.Channel] = pre.PLL[1 - args.Channel]
       /\ OSCCTRL = pre.OSCCTRL /\ mcctrl = pre.mcctrl
       /\ GCCTRL = pre.GCCTRL /\ fws = pre.fws
  /\ (op \in {"StartGenericClock", "StopGenericClock"}
        /\ args.Channel \in GClkChannels) =>
       /\ \A c \in GClkChannels \ {args.Channel} : GCCTRL[c] = pre.GCCTRL[c]
       /\ OSCCTRL = pre.OSCCTRL /\ mcctrl = pre.mcctrl
       /\ PLL = pre.PLL /\ fws = pre.fws
  /\ (op \in {"StartExternalOscillator", "StopExternalOscillator"}) => fws = pre.fws

C17_Witness ==
  /\ Returned("StartExternalOscillator")
  /\ args.Channel = 1
  /\ args.Type = EXOSC_MODE_CLOCK
  /\ args.Startup = EXOSC_START_0CLK
  /\ OSCCTRL[0] = [startup |-> 6, mode |-> 4]
  /\ pre.mcctrl = {2}
  /\ mcctrl = {2, 3}
(***************************************************************************)
(* C18: for every combination of 32-bit frequency arguments, also          *)
(* SourceFreq = 0 in StartPLL and Frequency = 0 in StartGenericClock, no   *)
(* call evaluates a division by zero: it either fails validation before    *)
(* the multiplier or divider is computed, or divides by a non-zero value.  *)
(***************************************************************************)
C18_NoDivisionByZero ==
  /\ KindIdx("div0") = {}
  /\ pc # "fault"
====
